---- MODULE Spec2Model ----
(***************************************************************************)
(* GeoIP2-node DNS & threat-intelligence scanner: the scan orchestration   *)
(* and the quota-governed reputation lookups of geoip.js.                  *)
(*                                                                         *)
(* The repository holds several editions of geoip.js.  The ones modelled   *)
(* here are                                                                *)
(*   "quota" : the quota-limited scanner (getMaltiverseInfo,               *)
(*             resetMaltiverseQuota), src/unnamed/part_001 lines 511-679;  *)
(*   "env"   : the env-configured scanner (queryMaltiverse, OpenNIC        *)
(*             discovery, batch search URL), part_001 lines 128-366;       *)
(*   "plain" : the scanner without reputation lookups whose runGeoIPScan   *)
(*             resolves the public address itself, part_001 lines 368-509. *)
(*   "opennic" : the env edition's main() with hard-coded lists and no     *)
(*             reputation client, part_001 lines 681-875.                  *)
(* "aggregate" and "discover" run the aggregation and the three editions   *)
(* of geoip_opennic_tier.js on their own.                                  *)
(*                                                                         *)
(* Node runs one callback at a time and drains the microtask queue (the    *)
(* continuations of settled promises) before it runs the next timer or I/O *)
(* callback.  `running` names the pass whose continuation is executing:    *)
(* while it is not 0 no timer fires and no response is delivered.          *)
(***************************************************************************)
EXTENDS Integers, Sequences, FiniteSets, TLC

VARIABLES
    variant,                 \* which edition of geoip.js runs
    mmdb,                    \* which database files exist on disk
    mainPc,                  \* position of main()
    scanTimer,               \* the recurring scan timer (setInterval) is installed
    running,                 \* pass whose continuation is executing, 0 = event loop idle
    passes,                  \* the scan passes in flight
    lastIP,                  \* let lastIP
    maltiverseRequestCount,  \* let maltiverseRequestCount   (quota edition)
    maltiverseQuotaExceeded, \* let maltiverseQuotaExceeded  (quota edition)
    maltiverseResetTimeout,  \* the reset timeouts pending  (quota edition)
    apiEnabled,              \* USE_MALTIVERSE_API && MALTIVERSE_API_KEY  (env edition)
    maltiverseApiCount,      \* let maltiverseApiCount      (env edition)
    agg,                     \* the aggregation on its own: inputs and output
    disc,                    \* the discovery on its own: edition, response and output
    lastResolved,            \* history: what the most recent getMyPublicIP call returned
    issuedInWindow,          \* history: remote reputation requests issued since the last reset
    lastAcquire,             \* history: the most recent quota check and what it followed
    afterReset               \* history: a reset ran and no quota check has followed it yet

vars == << variant, mmdb, mainPc, scanTimer, running, passes, lastIP,
           maltiverseRequestCount, maltiverseQuotaExceeded, maltiverseResetTimeout,
           apiEnabled, maltiverseApiCount, agg, disc, lastResolved,
           issuedInWindow, lastAcquire, afterReset >>

\* the state of the quota edition's guard, and of the env edition's
quotaVars == << maltiverseRequestCount, maltiverseQuotaExceeded, maltiverseResetTimeout >>
envVars == << apiEnabled, maltiverseApiCount >>
histVars == << issuedInWindow, lastAcquire, afterReset >>

(***************************************************************************)
(* Bounds of the model.                                                    *)
(***************************************************************************)
MaxPasses == 2

\* the longest source list the aggregation is tried on
MaxLen == 2

\* the history counter issuedInWindow saturates here
MaxIssued == 22

PassIds == 1 .. MaxPasses

(***************************************************************************)
(* Program constants.                                                      *)
(***************************************************************************)
NULL == "null"

MALTIVERSE_MAX_REQUESTS == 20

publicDNS ==
    << "1.1.1.1", "1.0.0.1", "8.8.8.8", "8.8.4.4",
       "185.222.222.222", "45.11.45.11", "76.76.2.0", "76.76.10.0",
       "193.110.81.254", "185.253.5.254", "194.242.2.2", "91.239.100.100" >>

\* env edition: the lists of PUBLIC_DNS and PROVIDER_DNS; the provider list
\* repeats an address of the public list and adds one of its own
publicDNS_E == << "1.1.1.1", "8.8.8.8" >>

providerDNS_E == << "8.8.8.8", "192.0.2.53" >>

\* env edition: MALTIVERSE_API_QUOTA as configured
MALTIVERSE_API_QUOTA == 2

\* what the public-address service can answer: an address outside the DNS
\* list and one that is also in it
MyIPs == { "203.0.113.5", "1.1.1.1" }

\* getMyPublicIP: the address, or null when the request failed
getMyPublicIP == MyIPs \cup { NULL }

\* answers of the reputation service to one request
Responses == { "ok", "nodata", "e403", "e404", "err" }

\* answers of the OpenNIC discovery service: the request fails, or it
\* returns entries (the address column of the lines)
DiscoveryResponses ==
    { [ ok |-> FALSE, entries |-> << >> ],
      [ ok |-> TRUE, entries |-> << >> ],
      [ ok |-> TRUE, entries |-> << "not-an-ip", "9.9.9.9" >> ],
      [ ok |-> TRUE, entries |-> << "8.8.8.8", "9.9.9.9", "8.8.8.8" >> ] }

\* net.isIP: not 0 for an IPv4 or IPv6 literal; "999.9.9.9" has an octet
\* above 255 and "1:2" is no IPv6 address
Malformed == { "not-an-ip", "", "999.9.9.9", "1:2" }

IsIP(s) == s \notin Malformed

\* what the local database reader does with a null address (the reader is
\* not part of the sources): it answers "not found", or it throws, which
\* rejects the timer callback's promise; an unhandled rejection ends the
\* pass or, by Node's default since version 15, the process
NullLookupOutcomes == { "notfound", "abort", "crash" }

Min(a, b) == IF a < b THEN a ELSE b

(***************************************************************************)
(* Array.from(new Set(list)): a Set keeps its values in insertion order    *)
(* and ignores a value it already holds.                                   *)
(***************************************************************************)
InSeq(x, s) == \E i \in 1 .. Len(s) : s[i] = x

RECURSIVE SetAdd(_, _)
SetAdd(acc, list) ==
    IF list = << >> THEN acc
    ELSE IF InSeq(Head(list), acc)
         THEN SetAdd(acc, Tail(list))
         ELSE SetAdd(Append(acc, Head(list)), Tail(list))

\* a variant that forgets the Set
ArrayWithoutSet(list) == list

ArrayFromSet(list) == SetAdd(<< >>, list)

\* const allIPs = Array.from(new Set([myip, ...publicDNS, ...providerDNS, ...openNICIPs]))
Aggregate(self, static, provider, dynamic) ==
    ArrayFromSet(<< self >> \o static \o provider \o dynamic)

(***************************************************************************)
(* Passes.  A pass is one run of the scan logic started by a trigger (the  *)
(* startup call of main() or a fire of the recurring timer).  idx is the   *)
(* index in ips of the next address to look up, so idx - 1 lookupIP calls  *)
(* have been made; urls counts the batch search URLs the pass has printed. *)
(* A pass that has run to its end stays visible with pc = "done" until its *)
(* caller's continuation has run.  response and reputation are the answer *)
(* to the reputation request of the address just enriched and the outcome  *)
(* the client made of it.                                                  *)
(***************************************************************************)
NoPass ==
    [ pc |-> "none", trigger |-> "none", myip |-> NULL, ips |-> << >>, idx |-> 1,
      allIPs |-> << >>, urls |-> 0, resolved |-> "none", rejected |-> FALSE,
      response |-> "none", reputation |-> "none" ]

NewPass(trigger) == [ NoPass EXCEPT !.pc = "resolving", !.trigger = trigger ]

InFlight == { p \in PassIds : passes[p].pc # "none" }

FreeSlot(p) == passes[p].pc = "none" /\ \A q \in PassIds : q < p => passes[q].pc # "none"

Lookups(p) == passes[p].idx - 1

\* history: how the address a pass resolved compares with the one the
\* trigger before it resolved
ResolvedAs(myip) ==
    IF myip = NULL THEN "failed"
    ELSE IF myip = lastResolved THEN "same"
    ELSE "changed"

\* a loop that stays on its address
SameAddress(idx) == idx

\* `for (const ip of ...)`: the loop moves on to the next address
NextAddress(idx) == idx + 1

\* a scan that does not record the address it starts on
LastSeenKept(last, myip) == last

\* `lastIP = myip`, the first statement of the changed-address branch
LastSeen(last, myip) == myip

NoAcquire == [ result |-> "none", firstAfterReset |-> FALSE ]

(***************************************************************************)
(* Quota edition (part_001 lines 511-679).                                 *)
(***************************************************************************)

\* getMaltiverseInfo's quota check
QuotaDenied(exceeded, count) == exceeded \/ count >= MALTIVERSE_MAX_REQUESTS

\* a counter that counts every answer
CountEveryResponse(count, resp) == count + 1

\* getMaltiverseInfo's return value: its reputation field
Reputation(resp) ==
    CASE resp = "ok" -> "Classified"
      [] resp = "nodata" -> "Unknown"
      [] resp = "e403" -> "Skipped (API quota exceeded)"
      [] resp = "e404" -> "Unknown (not in Maltiverse)"
      [] OTHER -> "Error"

\* getMaltiverseInfo after the await: the counter
CountAfterResponse(count, resp) ==
    IF resp \in { "ok", "nodata" } THEN count + 1 ELSE count

\* a flag that follows the last response
ExceededIsLastResponse(exceeded, resp) == resp = "e403"

\* getMaltiverseInfo after the await: the flag
ExceededAfterResponse(exceeded, resp) ==
    IF resp = "e403" THEN TRUE ELSE exceeded

\* a denial that leaves the flag as it was
ExceededKeptOnDenial(exceeded) == exceeded

\* getMaltiverseInfo when the quota check fails: the flag
ExceededAfterDenial(exceeded) == TRUE

\* a reset that arms no timeout
NotRearmed(pending) == pending

\* setTimeout(resetMaltiverseQuota, MALTIVERSE_INTERVAL_MS): one more
\* timeout is pending
Rearmed(pending) == pending + 1

\* resetMaltiverseQuota, with the timeouts pending when it is called
resetMaltiverseQuota(pending) ==
    /\ maltiverseRequestCount' = 0
    /\ maltiverseQuotaExceeded' = FALSE
    /\ maltiverseResetTimeout' = Rearmed(pending)
    /\ issuedInWindow' = 0
    /\ afterReset' = TRUE

\* a check that looks at the ASN file only
AsnMissing(files) == ~files.asn

\* prepareLookups: process.exit(1) when a database file does not exist
DbMissing(files) == ~files.asn \/ ~files.country

\* main() up to its await of the first runGeoIPScan
MainQ ==
    /\ variant = "quota"
    /\ mainPc = "init"
    /\ running = 0
    /\ IF DbMissing(mmdb)
       THEN /\ mainPc' = "exited"
            /\ UNCHANGED << passes, quotaVars, issuedInWindow, afterReset >>
       ELSE /\ mainPc' = "firstscan"
            /\ resetMaltiverseQuota(maltiverseResetTimeout)
            /\ passes' = [ passes EXCEPT ![1] = NewPass("startup") ]
    /\ UNCHANGED << variant, mmdb, agg, disc, scanTimer, running, lastIP, envVars, lastResolved, lastAcquire >>

\* the setInterval callback: runGeoIPScan is called and not awaited
ScanTimerQ ==
    /\ variant = "quota"
    /\ scanTimer
    /\ running = 0
    /\ \E p \in PassIds :
        /\ FreeSlot(p)
        /\ passes' = [ passes EXCEPT ![p] = NewPass("timer") ]
    /\ UNCHANGED << variant, mmdb, agg, disc, mainPc, scanTimer, running, lastIP, quotaVars, envVars,
                    lastResolved, histVars >>

\* the reset timeout fires
ResetTimerQ ==
    /\ variant = "quota"
    /\ maltiverseResetTimeout > 0
    /\ running = 0
    /\ resetMaltiverseQuota(maltiverseResetTimeout - 1)
    /\ UNCHANGED << variant, mmdb, agg, disc, mainPc, scanTimer, running, passes, lastIP, envVars,
                    lastResolved, lastAcquire >>

\* runGeoIPScan after its await of getMyPublicIP
ResolvedQ(p) ==
    /\ variant = "quota"
    /\ running = 0
    /\ passes[p].pc = "resolving"
    /\ \E myip \in getMyPublicIP :
        /\ lastResolved' = myip
        /\ IF myip = NULL
           THEN /\ passes' = [ passes EXCEPT ![p] =
                                 [ @ EXCEPT !.pc = "done", !.resolved = ResolvedAs(myip) ] ]
                /\ UNCHANGED lastIP
           ELSE IF myip # lastIP
           THEN /\ lastIP' = LastSeen(lastIP, myip)
                /\ passes' = [ passes EXCEPT ![p] =
                                 [ @ EXCEPT !.pc = "scan", !.myip = myip,
                                            !.resolved = ResolvedAs(myip),
                                            !.ips = ArrayFromSet(<< myip >> \o publicDNS) ] ]
           ELSE /\ passes' = [ passes EXCEPT ![p] =
                                 [ @ EXCEPT !.pc = "done", !.myip = myip,
                                            !.resolved = ResolvedAs(myip) ] ]
                /\ UNCHANGED lastIP
    /\ running' = p
    /\ UNCHANGED << variant, mmdb, agg, disc, mainPc, scanTimer, quotaVars, envVars, histVars >>

\* one turn of runGeoIPScan's loop: lookupIP up to getMaltiverseInfo's await
LookupIPQ(p) ==
    /\ variant = "quota"
    /\ running = p
    /\ passes[p].pc = "scan"
    /\ IF passes[p].idx > Len(passes[p].ips)
       THEN /\ passes' = [ passes EXCEPT ![p] =
                             [ @ EXCEPT !.pc = "done", !.response = "none",
                                        !.reputation = "none" ] ]
            /\ UNCHANGED << running, maltiverseQuotaExceeded, histVars >>
       ELSE IF QuotaDenied(maltiverseQuotaExceeded, maltiverseRequestCount)
       THEN /\ maltiverseQuotaExceeded' = ExceededAfterDenial(maltiverseQuotaExceeded)
            /\ passes' = [ passes EXCEPT ![p] =
                             [ @ EXCEPT !.idx = NextAddress(@), !.response = "none",
                                        !.reputation = "Skipped (API quota limit reached)" ] ]
            /\ lastAcquire' = [ result |-> "Denied", firstAfterReset |-> afterReset ]
            /\ afterReset' = FALSE
            /\ UNCHANGED << running, issuedInWindow >>
       ELSE /\ passes' = [ passes EXCEPT ![p] =
                             [ @ EXCEPT !.pc = "maltiverse", !.response = "none",
                                        !.reputation = "none" ] ]
            /\ running' = 0
            /\ issuedInWindow' = Min(issuedInWindow + 1, MaxIssued)
            /\ lastAcquire' = [ result |-> "Granted", firstAfterReset |-> afterReset ]
            /\ afterReset' = FALSE
            /\ UNCHANGED maltiverseQuotaExceeded
    /\ UNCHANGED << variant, mmdb, agg, disc, mainPc, scanTimer, lastIP, maltiverseRequestCount,
                    maltiverseResetTimeout, envVars, lastResolved >>

\* getMaltiverseInfo after its await of axios.get, and the rest of lookupIP
MaltiverseReturnQ(p) ==
    /\ variant = "quota"
    /\ running = 0
    /\ passes[p].pc = "maltiverse"
    /\ \E resp \in Responses :
        /\ maltiverseRequestCount' = CountAfterResponse(maltiverseRequestCount, resp)
        /\ maltiverseQuotaExceeded' = ExceededAfterResponse(maltiverseQuotaExceeded, resp)
        /\ passes' = [ passes EXCEPT ![p] =
                         [ @ EXCEPT !.pc = "scan", !.idx = NextAddress(@),
                                    !.rejected = @ \/ resp = "e403",
                                    !.response = resp, !.reputation = Reputation(resp) ] ]
    /\ running' = p
    /\ UNCHANGED << variant, mmdb, agg, disc, mainPc, scanTimer, lastIP, maltiverseResetTimeout, envVars,
                    lastResolved, histVars >>

\* runGeoIPScan returns; main(), when it awaited this pass, installs the
\* recurring timer
ReturnQ(p) ==
    /\ variant = "quota"
    /\ running = p
    /\ passes[p].pc = "done"
    /\ passes' = [ passes EXCEPT ![p] = NoPass ]
    /\ running' = 0
    /\ IF passes[p].trigger = "startup"
       THEN scanTimer' = TRUE /\ mainPc' = "running"
       ELSE UNCHANGED << scanTimer, mainPc >>
    /\ UNCHANGED << variant, mmdb, agg, disc, lastIP, quotaVars, envVars, lastResolved, histVars >>

NextQ ==
    \/ MainQ
    \/ ScanTimerQ
    \/ ResetTimerQ
    \/ \E p \in PassIds : ResolvedQ(p)
    \/ \E p \in PassIds : LookupIPQ(p)
    \/ \E p \in PassIds : MaltiverseReturnQ(p)
    \/ \E p \in PassIds : ReturnQ(p)

(***************************************************************************)
(* Plain edition (part_001 lines 368-509): no reputation lookups; lookupIP *)
(* never suspends, so a scan runs from the resolved address to its end in  *)
(* one continuation.                                                       *)
(***************************************************************************)

\* main() up to its await of the first runGeoIPScan
MainP ==
    /\ variant = "plain"
    /\ mainPc = "init"
    /\ running = 0
    /\ IF DbMissing(mmdb)
       THEN mainPc' = "exited" /\ UNCHANGED passes
       ELSE /\ mainPc' = "firstscan"
            /\ passes' = [ passes EXCEPT ![1] = NewPass("startup") ]
    /\ UNCHANGED << variant, mmdb, agg, disc, scanTimer, running, lastIP, quotaVars, envVars,
                    lastResolved, histVars >>

\* the setInterval callback
ScanTimerP ==
    /\ variant = "plain"
    /\ scanTimer
    /\ running = 0
    /\ \E p \in PassIds :
        /\ FreeSlot(p)
        /\ passes' = [ passes EXCEPT ![p] = NewPass("timer") ]
    /\ UNCHANGED << variant, mmdb, agg, disc, mainPc, scanTimer, running, lastIP, quotaVars, envVars,
                    lastResolved, histVars >>

\* runGeoIPScan after its await of getMyPublicIP
ResolvedP(p) ==
    /\ variant = "plain"
    /\ running = 0
    /\ passes[p].pc = "resolving"
    /\ \E myip \in getMyPublicIP :
        /\ lastResolved' = myip
        /\ IF myip = NULL
           THEN /\ passes' = [ passes EXCEPT ![p] =
                                 [ @ EXCEPT !.pc = "done", !.resolved = ResolvedAs(myip) ] ]
                /\ UNCHANGED lastIP
           ELSE IF myip # lastIP
           THEN /\ lastIP' = LastSeen(lastIP, myip)
                /\ passes' = [ passes EXCEPT ![p] =
                                 [ @ EXCEPT !.pc = "scan", !.myip = myip,
                                            !.resolved = ResolvedAs(myip),
                                            !.ips = ArrayFromSet(<< myip >> \o publicDNS) ] ]
           ELSE /\ passes' = [ passes EXCEPT ![p] =
                                 [ @ EXCEPT !.pc = "done", !.myip = myip,
                                            !.resolved = ResolvedAs(myip) ] ]
                /\ UNCHANGED lastIP
    /\ running' = p
    /\ UNCHANGED << variant, mmdb, agg, disc, mainPc, scanTimer, quotaVars, envVars, histVars >>

\* one turn of runGeoIPScan's loop, and after the loop the batch search URL
LookupIPP(p) ==
    /\ variant = "plain"
    /\ running = p
    /\ passes[p].pc = "scan"
    /\ IF passes[p].idx > Len(passes[p].ips)
       THEN passes' = [ passes EXCEPT ![p] =
                          [ @ EXCEPT !.pc = "done",
                                     !.urls = IF Len(passes[p].ips) > 1 THEN @ + 1 ELSE @,
                                     !.allIPs = passes[p].ips ] ]
       ELSE passes' = [ passes EXCEPT ![p].idx = NextAddress(@) ]
    /\ UNCHANGED << variant, mmdb, agg, disc, mainPc, scanTimer, running, lastIP, quotaVars, envVars,
                    lastResolved, histVars >>

\* runGeoIPScan returns; main(), when it awaited this pass, installs the
\* recurring timer
ReturnP(p) ==
    /\ variant = "plain"
    /\ running = p
    /\ passes[p].pc = "done"
    /\ passes' = [ passes EXCEPT ![p] = NoPass ]
    /\ running' = 0
    /\ IF passes[p].trigger = "startup"
       THEN scanTimer' = TRUE /\ mainPc' = "running"
       ELSE UNCHANGED << scanTimer, mainPc >>
    /\ UNCHANGED << variant, mmdb, agg, disc, lastIP, quotaVars, envVars, lastResolved, histVars >>

NextP ==
    \/ MainP
    \/ ScanTimerP
    \/ \E p \in PassIds : ResolvedP(p)
    \/ \E p \in PassIds : LookupIPP(p)
    \/ \E p \in PassIds : ReturnP(p)

(***************************************************************************)
(* OpenNIC discovery (utility/geoip_opennic_tier.js, lines 105-133): the   *)
(* valid addresses of the response, each once, in order; empty on failure. *)
(***************************************************************************)
RECURSIVE KeepValid(_, _)
KeepValid(seen, entries) ==
    IF entries = << >> THEN seen
    ELSE IF IsIP(Head(entries)) /\ ~InSeq(Head(entries), seen)
         THEN KeepValid(Append(seen, Head(entries)), Tail(entries))
         ELSE KeepValid(seen, Tail(entries))

fetchOpenNICTierServers(response) ==
    IF response.ok THEN KeepValid(<< >>, response.entries) ELSE << >>

(***************************************************************************)
(* The other two editions of geoip_opennic_tier.js.  Lines 11-40 read a    *)
(* JSON list and keep the entries net.isIP accepts, each once.  Lines      *)
(* 55-94 keep the entries that match ipv4Regex or ipv6Regex,               *)
(*   /^([0-9]{1,3}\.){3}[0-9]{1,3}$/    /^([a-fA-F0-9:]+:+)+[a-fA-F0-9]+$/  *)
(* which also match "999.9.9.9" and "1:2", and return them each once.      *)
(***************************************************************************)
RegexRejected == { "not-an-ip", "" }

MatchesIpRegex(s) == s \notin RegexRejected

RECURSIVE KeepMatching(_, _)
KeepMatching(servers, entries) ==
    IF entries = << >> THEN servers
    ELSE IF MatchesIpRegex(Head(entries))
         THEN KeepMatching(Append(servers, Head(entries)), Tail(entries))
         ELSE KeepMatching(servers, Tail(entries))

fetchOpenNICTierServersRegex(response) ==
    IF response.ok THEN ArrayFromSet(KeepMatching(<< >>, response.entries)) ELSE << >>

\* curl edition: stdout is JSON.parsed; what is no JSON resolves to []
fetchOpenNICTierServersCurl(response) ==
    IF response.ok /\ response.shape = "list"
    THEN KeepValid(<< >>, response.entries)
    ELSE << >>

\* curl edition: `for (const entry of data)` runs in exec's callback, outside
\* any try; on JSON that is no list (an object, null, a number) it throws
\* there, the promise is never settled and the exception is uncaught
CurlCallbackThrows(response) == response.ok /\ response.shape = "object"

DiscoveryEditions == { "curl", "regex", "axios" }

\* openNICIPs in main(): what the edition in use returns, as addresses
OpenNICIPs(edition, response) ==
    CASE edition = "curl" -> fetchOpenNICTierServersCurl(response)
      [] edition = "regex" -> fetchOpenNICTierServersRegex(response)
      [] OTHER -> fetchOpenNICTierServers(response)

(***************************************************************************)
(* Env edition (part_001 lines 128-366).                                   *)
(***************************************************************************)

\* The OpenNIC edition (part_001 lines 681-875) is the env edition with the
\* hard-coded public list, an empty provider list whose scan is commented
\* out, and no reputation client; main() and the timer callback are the same.
EnvLike == { "env", "opennic" }

providerDNS_O == << >>

PublicDNSInUse == IF variant = "opennic" THEN publicDNS ELSE publicDNS_E

ProviderDNSInUse == IF variant = "opennic" THEN providerDNS_O ELSE providerDNS_E

\* the provider list as scanned: the OpenNIC edition does not scan it
ProviderDNSScanned == IF variant = "opennic" THEN << >> ELSE providerDNS_E

\* const allIPs in main() and in the timer callback
AllIPs(myip, openNICIPs) == Aggregate(myip, PublicDNSInUse, ProviderDNSInUse, openNICIPs)

\* a scan that leaves out the provider list
ScanListWithoutProvider(myip, openNICIPs) ==
    << myip >> \o PublicDNSInUse \o openNICIPs

\* the addresses the three runGeoIPScan calls of a scan go through, in order
ScanList(myip, openNICIPs) ==
    << myip >> \o PublicDNSInUse \o ProviderDNSScanned \o openNICIPs

\* a check that closes the guard only while the counter is at the quota
ApiQuotaIsExact(count) == count = MALTIVERSE_API_QUOTA

\* queryMaltiverse's quota check
ApiQuotaReached(count) == count >= MALTIVERSE_API_QUOTA

\* a lookup that asks whenever the quota allows
QueriesWhenBelowQuota(enabled, count) == ~ApiQuotaReached(count)

\* lookupIP and queryMaltiverse: whether a request is sent, by
\* USE_MALTIVERSE_API && MALTIVERSE_API_KEY (enabled) and the counter
QueriesMaltiverse(enabled, count) == enabled /\ ~ApiQuotaReached(count)

\* queryMaltiverse: what it returns or, in its catch, logs
QueryOutcome(resp) ==
    CASE resp \in { "ok", "nodata" } -> "Data"
      [] resp = "e404" -> "Not found"
      [] OTHER -> "Error"

\* queryMaltiverse after the await: the counter
ApiCountAfterResponse(count, resp) ==
    IF resp \in { "ok", "nodata" } THEN count + 1 ELSE count

\* the process dies
Crash ==
    /\ mainPc' = "crashed"
    /\ scanTimer' = FALSE
    /\ running' = 0
    /\ passes' = [ q \in PassIds |-> NoPass ]

\* main() up to its await of getMyPublicIP
MainE ==
    /\ variant \in EnvLike
    /\ mainPc = "init"
    /\ running = 0
    /\ IF DbMissing(mmdb)
       THEN mainPc' = "exited" /\ UNCHANGED passes
       ELSE /\ mainPc' = "firstscan"
            /\ passes' = [ passes EXCEPT ![1] = NewPass("startup") ]
    /\ UNCHANGED << variant, mmdb, agg, disc, scanTimer, running, lastIP, quotaVars, envVars,
                    lastResolved, histVars >>

\* the setInterval callback up to its await of getMyPublicIP
ScanTimerE ==
    /\ variant \in EnvLike
    /\ scanTimer
    /\ running = 0
    /\ \E p \in PassIds :
        /\ FreeSlot(p)
        /\ passes' = [ passes EXCEPT ![p] = NewPass("timer") ]
    /\ UNCHANGED << variant, mmdb, agg, disc, mainPc, scanTimer, running, lastIP, quotaVars, envVars,
                    lastResolved, histVars >>

\* after the await of getMyPublicIP: main() returns when it got no address,
\* the timer callback goes on whatever it got; then fetchOpenNICTierServers
\* is called and awaited
ResolvedE(p) ==
    /\ variant \in EnvLike
    /\ running = 0
    /\ passes[p].pc = "resolving"
    /\ \E myip \in getMyPublicIP :
        /\ lastResolved' = myip
        /\ IF passes[p].trigger = "startup" /\ myip = NULL
           THEN /\ passes' = [ passes EXCEPT ![p] =
                                 [ @ EXCEPT !.pc = "done", !.resolved = ResolvedAs(myip) ] ]
                /\ running' = p
           ELSE /\ passes' = [ passes EXCEPT ![p] =
                                 [ @ EXCEPT !.pc = "discovering", !.myip = myip,
                                            !.resolved = ResolvedAs(myip) ] ]
                /\ UNCHANGED running
    /\ UNCHANGED << variant, mmdb, agg, disc, mainPc, scanTimer, lastIP, quotaVars, envVars, histVars >>

\* after the await of fetchOpenNICTierServers: allIPs, the comparison with
\* lastIP, and in the else branch the batch search URL
DiscoveredE(p) ==
    /\ variant \in EnvLike
    /\ running = 0
    /\ passes[p].pc = "discovering"
    /\ \E response \in DiscoveryResponses :
        LET openNICIPs == fetchOpenNICTierServers(response)
            myip == passes[p].myip
        IN  IF myip # lastIP
            THEN /\ lastIP' = LastSeen(lastIP, myip)
                 /\ passes' = [ passes EXCEPT ![p] =
                                  [ @ EXCEPT !.pc = "scan",
                                             !.allIPs = AllIPs(myip, openNICIPs),
                                             !.ips = ScanList(myip, openNICIPs) ] ]
            ELSE /\ passes' = [ passes EXCEPT ![p] =
                                  [ @ EXCEPT !.pc = "done",
                                             !.allIPs = AllIPs(myip, openNICIPs),
                                             !.urls = @ + 1 ] ]
                 /\ UNCHANGED lastIP
    /\ running' = p
    /\ UNCHANGED << variant, mmdb, agg, disc, mainPc, scanTimer, quotaVars, envVars, lastResolved, histVars >>

\* one turn of a runGeoIPScan loop: lookupIP up to queryMaltiverse's await;
\* after the last loop the batch search URL
LookupIPE(p) ==
    /\ variant \in EnvLike
    /\ running = p
    /\ passes[p].pc = "scan"
    /\ IF passes[p].idx > Len(passes[p].ips)
       THEN /\ passes' = [ passes EXCEPT ![p] =
                             [ @ EXCEPT !.pc = "done", !.urls = @ + 1,
                                        !.response = "none", !.reputation = "none" ] ]
            /\ UNCHANGED << mainPc, scanTimer, running >>
       ELSE \E local \in IF passes[p].ips[passes[p].idx] = NULL
                         THEN NullLookupOutcomes ELSE { "notfound" } :
            CASE local = "crash" -> Crash
              [] local = "abort" ->
                    /\ passes' = [ passes EXCEPT ![p] = NoPass ]
                    /\ running' = 0
                    /\ UNCHANGED << mainPc, scanTimer >>
              [] OTHER ->
                    /\ IF QueriesMaltiverse(apiEnabled, maltiverseApiCount)
                       THEN /\ passes' = [ passes EXCEPT ![p] =
                                             [ @ EXCEPT !.pc = "maltiverse",
                                                        !.response = "none",
                                                        !.reputation = "none" ] ]
                            /\ running' = 0
                       ELSE /\ passes' = [ passes EXCEPT ![p] =
                                             [ @ EXCEPT !.idx = NextAddress(@),
                                                        !.response = "none",
                                                        !.reputation = "none" ] ]
                            /\ UNCHANGED running
                    /\ UNCHANGED << mainPc, scanTimer >>
    /\ UNCHANGED << variant, mmdb, agg, disc, lastIP, quotaVars, envVars, lastResolved, histVars >>

\* queryMaltiverse after its await of axios.get, and the rest of lookupIP
MaltiverseReturnE(p) ==
    /\ variant = "env"
    /\ running = 0
    /\ passes[p].pc = "maltiverse"
    /\ \E resp \in Responses :
        /\ maltiverseApiCount' = ApiCountAfterResponse(maltiverseApiCount, resp)
        /\ passes' = [ passes EXCEPT ![p] =
                         [ @ EXCEPT !.pc = "scan", !.idx = NextAddress(@),
                                    !.rejected = @ \/ resp = "e403",
                                    !.response = resp, !.reputation = QueryOutcome(resp) ] ]
    /\ running' = p
    /\ UNCHANGED << variant, mmdb, agg, disc, mainPc, scanTimer, lastIP, quotaVars, apiEnabled,
                    lastResolved, histVars >>

\* the end of a pass: main() returns without installing the timer when it
\* got no address, and installs it after its own scan; a timer callback
\* just ends
ReturnE(p) ==
    /\ variant \in EnvLike
    /\ running = p
    /\ passes[p].pc = "done"
    /\ passes' = [ passes EXCEPT ![p] = NoPass ]
    /\ running' = 0
    /\ IF passes[p].trigger = "startup"
       THEN IF passes[p].resolved = "failed"
            THEN mainPc' = "returned" /\ UNCHANGED scanTimer
            ELSE mainPc' = "running" /\ scanTimer' = TRUE
       ELSE UNCHANGED << scanTimer, mainPc >>
    /\ UNCHANGED << variant, mmdb, agg, disc, lastIP, quotaVars, envVars, lastResolved, histVars >>

NextE ==
    \/ MainE
    \/ ScanTimerE
    \/ \E p \in PassIds : ResolvedE(p)
    \/ \E p \in PassIds : DiscoveredE(p)
    \/ \E p \in PassIds : LookupIPE(p)
    \/ \E p \in PassIds : MaltiverseReturnE(p)
    \/ \E p \in PassIds : ReturnE(p)

NextO ==
    \/ MainE
    \/ ScanTimerE
    \/ \E p \in PassIds : ResolvedE(p)
    \/ \E p \in PassIds : DiscoveredE(p)
    \/ \E p \in PassIds : LookupIPE(p)
    \/ \E p \in PassIds : ReturnE(p)

(***************************************************************************)
(* The aggregation on its own, on every choice of short source lists.      *)
(***************************************************************************)
AggAddresses == { "1.1.1.1", "8.8.8.8", "9.9.9.9" }

AggLists == UNION { [ 1 .. n -> AggAddresses ] : n \in 0 .. MaxLen }

NoAgg ==
    [ self |-> NULL, static |-> << >>, provider |-> << >>, dynamic |-> << >>,
      out |-> << >>, done |-> FALSE ]

AggregateStep ==
    /\ variant = "aggregate"
    /\ ~agg.done
    /\ agg' = [ agg EXCEPT !.out = Aggregate(agg.self, agg.static, agg.provider, agg.dynamic),
                           !.done = TRUE ]
    /\ UNCHANGED << variant, mmdb, disc, mainPc, scanTimer, running, passes, lastIP, quotaVars,
                    envVars, lastResolved, histVars >>

NextAgg == AggregateStep

(***************************************************************************)
(* The discovery on its own: main() from the answer of the discovery       *)
(* service to allIPs, on every short answer and each edition.              *)
(***************************************************************************)
DiscEntries == { "9.9.9.9", "8.8.8.8", "not-an-ip", "999.9.9.9", "1:2" }

\* an answer: the request failed (ok false), or it brought a list of
\* entries, or JSON that is no list, or text that is no JSON
DiscAnswers ==
    { [ ok |-> ok, shape |-> "list", entries |-> e ] :
        ok \in BOOLEAN, e \in UNION { [ 1 .. n -> DiscEntries ] : n \in 0 .. MaxLen } }
    \cup { [ ok |-> TRUE, shape |-> sh, entries |-> << >> ] : sh \in { "object", "unparsable" } }

NoDisc ==
    [ edition |-> "none", response |-> [ ok |-> FALSE, shape |-> "list", entries |-> << >> ],
      self |-> NULL, openNICIPs |-> << >>, allIPs |-> << >>, done |-> FALSE,
      crashed |-> FALSE ]

DiscoverStep ==
    /\ variant = "discover"
    /\ ~disc.done
    /\ ~disc.crashed
    /\ IF disc.edition = "curl" /\ CurlCallbackThrows(disc.response)
       THEN disc' = [ disc EXCEPT !.crashed = TRUE ]
       ELSE LET openNICIPs == OpenNICIPs(disc.edition, disc.response)
            IN  disc' = [ disc EXCEPT !.openNICIPs = openNICIPs,
                                      !.allIPs = AllIPs(disc.self, openNICIPs),
                                      !.done = TRUE ]
    /\ UNCHANGED << variant, mmdb, agg, mainPc, scanTimer, running, passes, lastIP, quotaVars,
                    envVars, lastResolved, histVars >>

NextDisc == DiscoverStep

(***************************************************************************)
(* Specifications.                                                         *)
(***************************************************************************)
\* the two database files, each there or not
DbFiles == [ asn : BOOLEAN, country : BOOLEAN ]

AllPresent == [ asn |-> TRUE, country |-> TRUE ]

InitCommon ==
    /\ mainPc = "init"
    /\ scanTimer = FALSE
    /\ running = 0
    /\ passes = [ p \in PassIds |-> NoPass ]
    /\ lastIP = NULL
    /\ maltiverseRequestCount = 0
    /\ maltiverseQuotaExceeded = FALSE
    /\ maltiverseResetTimeout = 0
    /\ maltiverseApiCount = 0
    /\ lastResolved = NULL
    /\ issuedInWindow = 0
    /\ lastAcquire = NoAcquire
    /\ afterReset = FALSE

InitQ == variant = "quota" /\ apiEnabled = TRUE /\ mmdb \in DbFiles /\ agg = NoAgg /\ disc = NoDisc /\ InitCommon

SpecQ == InitQ /\ [][NextQ]_vars

InitP == variant = "plain" /\ apiEnabled = FALSE /\ mmdb \in DbFiles /\ agg = NoAgg /\ disc = NoDisc /\ InitCommon

SpecP == InitP /\ [][NextP]_vars

InitE ==
    variant = "env" /\ apiEnabled \in BOOLEAN /\ mmdb \in DbFiles /\ agg = NoAgg /\ disc = NoDisc /\ InitCommon

SpecE == InitE /\ [][NextE]_vars

\* Node runs every continuation that is ready (nothing else runs until it
\* has), and each time the event loop is idle again it delivers the answers
\* that have arrived and fires the timers that are due; every remote call
\* is answered or fails
FairE ==
    /\ SF_vars(ScanTimerE)
    /\ \A p \in PassIds :
          /\ SF_vars(ResolvedE(p))
          /\ SF_vars(DiscoveredE(p))
          /\ SF_vars(MaltiverseReturnE(p))
          /\ WF_vars(LookupIPE(p))
          /\ WF_vars(ReturnE(p))

InitEOn == InitE /\ apiEnabled

SpecEFair == InitEOn /\ [][NextE]_vars /\ FairE

InitO ==
    variant = "opennic" /\ apiEnabled = FALSE /\ mmdb \in DbFiles /\ agg = NoAgg /\ disc = NoDisc /\ InitCommon

SpecO == InitO /\ [][NextO]_vars

SpecOFair == InitO /\ [][NextO]_vars /\ FairE

InitAgg ==
    /\ variant = "aggregate"
    /\ mmdb = AllPresent
    /\ apiEnabled = FALSE
    /\ disc = NoDisc
    /\ \E self \in AggAddresses, static \in AggLists, provider \in AggLists,
          dynamic \in AggLists :
          agg = [ self |-> self, static |-> static, provider |-> provider,
                  dynamic |-> dynamic, out |-> << >>, done |-> FALSE ]
    /\ InitCommon

SpecAgg == InitAgg /\ [][NextAgg]_vars

InitDisc ==
    /\ variant = "discover"
    /\ mmdb = AllPresent
    /\ apiEnabled = FALSE
    /\ agg = NoAgg
    /\ \E edition \in DiscoveryEditions, response \in DiscAnswers, self \in MyIPs :
          disc = [ NoDisc EXCEPT !.edition = edition, !.response = response, !.self = self ]
    /\ InitCommon

SpecDisc == InitDisc /\ [][NextDisc]_vars

(***************************************************************************)
(* Properties.                                                             *)
(***************************************************************************)

\* the step is a quota check of the quota edition (a turn of the scan loop
\* that has an address left)
QuotaCheckStep ==
    \E p \in PassIds :
        /\ variant = "quota"
        /\ running = p
        /\ passes[p].pc = "scan"
        /\ passes[p].idx <= Len(passes[p].ips)
        /\ passes'[p] # passes[p]

\* C1: between two quota resets no more than MALTIVERSE_MAX_REQUESTS remote
\* reputation requests are issued, whatever the service answers.
C1_RequestsPerWindowWithinCeiling == issuedInWindow <= MALTIVERSE_MAX_REQUESTS

\* C2: once exactly MALTIVERSE_MAX_REQUESTS quota checks have been granted
\* since the last reset, the next quota check is denied and issues no request.
C2_DeniedAfterCeilingGrants ==
    [][ (issuedInWindow = MALTIVERSE_MAX_REQUESTS /\ QuotaCheckStep)
            => (lastAcquire'.result = "Denied" /\ issuedInWindow' = issuedInWindow) ]_vars

\* C3: the first quota check after a reset is granted, also when a request
\* issued before the reset was answered after it.
C3_GrantedAfterReset == ~(lastAcquire.firstAfterReset /\ lastAcquire.result = "Denied")

\* C4: a pass that received a quota rejection (403) from the reputation
\* service issues no further reputation request.
C4_NoRequestAfterRejection ==
    \A p \in PassIds : passes[p].rejected => passes[p].pc # "maltiverse"

\* C5: a pass that resolved the same public address as the trigger before
\* it ends with no lookupIP call made and exactly one batch search URL
\* printed.
C5_UnchangedAddressSkipsButPublishes ==
    \A p \in PassIds :
        (passes[p].pc = "done" /\ passes[p].resolved = "same")
            => (Lookups(p) = 0 /\ passes[p].urls = 1)

\* C6: no step of a pass whose public-address resolution failed changes
\* lastIP or the quota state.
C6_FailedResolutionChangesNothing ==
    [][ \A p \in PassIds :
            (passes[p].resolved = "failed" /\ passes'[p] # passes[p])
                => UNCHANGED << lastIP, quotaVars, maltiverseApiCount >> ]_vars

\* C7: a pass whose public-address resolution failed prints no batch search
\* URL and never enters the scan loop.
C7_FailedResolutionNoArtifactNoScan ==
    \A p \in PassIds :
        passes[p].resolved = "failed"
            => (passes[p].urls = 0 /\ passes[p].pc \notin { "scan", "maltiverse" }
                /\ Lookups(p) = 0)

\* C8: once main() has finished, the recurring scan timer is installed,
\* also when the startup resolution failed.
C8_TimerInstalledAfterStartup ==
    mainPc \in { "returned", "running" } => scanTimer

\* C9: at most one scan pass is in flight at any time.
C9_PassesSerialized == Cardinality(InFlight) <= 1

Indices(s) == 1 .. Len(s)

NoDuplicates(s) == \A i, j \in Indices(s) : i # j => s[i] # s[j]

FirstIndex(s, x) == CHOOSE i \in Indices(s) : s[i] = x /\ \A k \in 1 .. (i - 1) : s[k] # x

AggInput == << agg.self >> \o agg.static \o agg.provider \o agg.dynamic

\* C10: the aggregated list holds every input address, none twice, in the
\* order of first occurrence in self, static, provider, dynamic.
C10_AggregateUniqueInPrecedenceOrder ==
    agg.done =>
        /\ NoDuplicates(agg.out)
        /\ { agg.out[i] : i \in Indices(agg.out) } = { AggInput[i] : i \in Indices(AggInput) }
        /\ \A i, j \in Indices(agg.out) :
              i < j => FirstIndex(AggInput, agg.out[i]) < FirstIndex(AggInput, agg.out[j])

\* C10 witness: an aggregation whose sources overlap (the same address in
\* two source lists, and the own address in one) has been computed.
C10_Witness ==
    /\ agg.done
    /\ InSeq(agg.self, agg.static)
    /\ \E i \in Indices(agg.provider) : InSeq(agg.provider[i], agg.dynamic)
    /\ Len(agg.out) < Len(AggInput)


\* the entries of a discovery answer that are IP literals
ValidEntries(response) ==
    { response.entries[i] : i \in { j \in Indices(response.entries) : IsIP(response.entries[j]) } }

Elements(s) == { s[i] : i \in Indices(s) }

\* C11: of the entries a discovery answer holds, the aggregated list holds
\* the IP literals and none of the others.
C11_OnlyValidDynamicEntries ==
    (disc.done /\ disc.response.ok) =>
        /\ ValidEntries(disc.response) \subseteq Elements(disc.allIPs)
        /\ \A x \in Elements(disc.response.entries) :
              ~IsIP(x) => x \notin Elements(disc.allIPs)

\* C12: a pass that has an address left to enrich stays in its scan and
\* either stays at that address or moves to the next one; nothing that
\* happens to one address ends the pass.
C12_NoAddressAbortsPass ==
    [][ \A p \in PassIds :
            (passes[p].pc \in { "scan", "maltiverse" } /\ passes[p].idx <= Len(passes[p].ips))
                => /\ passes'[p].pc \in { "scan", "maltiverse" }
                   /\ passes'[p].ips = passes[p].ips
                   /\ passes'[p].idx \in { passes[p].idx, passes[p].idx + 1 } ]_vars

\* the addresses a pass has enriched so far
Enriched(p) == { passes[p].ips[i] : i \in 1 .. Lookups(p) }

\* C13: a finished pass that enriched addresses and printed a batch search
\* URL lists in the URL exactly the addresses it enriched.
C13_UrlListsTheScannedAddresses ==
    \A p \in PassIds :
        (passes[p].pc = "done" /\ Lookups(p) > 0 /\ passes[p].urls > 0)
            => Elements(passes[p].allIPs) = Enriched(p)

C13_Witness ==
    \E p \in PassIds :
        /\ passes[p].pc = "done" /\ Lookups(p) > 0 /\ passes[p].urls = 1
        /\ "9.9.9.9" \in Enriched(p)
        /\ Len(passes[p].allIPs) < Lookups(p)

\* C14: a pass that scanned has enriched the addresses of the aggregated
\* list, each once and in the order of that list.
C14_EachAddressEnrichedOnceInSetOrder ==
    \A p \in PassIds :
        (passes[p].pc = "done" /\ Lookups(p) > 0)
            => SubSeq(passes[p].ips, 1, Lookups(p)) = passes[p].allIPs

\* C15: the reset never runs while a granted request is between its quota
\* check and its update of the counter or the flag.
C15_NoResetInsideGrantedRequest ==
    [][ ResetTimerQ => \A p \in PassIds : passes[p].pc # "maltiverse" ]_vars

\* C16: a step that clears the exhausted flag or lowers the request counter
\* is a run of the reset timer's resetMaltiverseQuota.
C16_OnlyResetReopens ==
    [][ ( \/ (maltiverseQuotaExceeded /\ ~maltiverseQuotaExceeded')
          \/ maltiverseRequestCount' < maltiverseRequestCount )
        => ResetTimerQ ]_vars

\* the guard was exhausted (a check was denied), the reset ran, and no
\* check has been made since
C16_Witness ==
    /\ variant = "quota"
    /\ lastAcquire.result = "Denied"
    /\ afterReset
    /\ ~maltiverseQuotaExceeded
    /\ \E p \in PassIds : passes[p].pc = "scan" /\ Lookups(p) > 0

\* a quota check that is denied
DeniedStep ==
    QuotaCheckStep /\ QuotaDenied(maltiverseQuotaExceeded, maltiverseRequestCount)

\* C17: a denied quota check leaves the counter, the flag and the pending
\* reset timer as they were.
C17_DeniedChangesNothing == [][ DeniedStep => UNCHANGED quotaVars ]_vars

\* C17 as amended: a denied quota check leaves the counter and the pending
\* reset timer as they were and leaves the flag set.
C17_DeniedLeavesCounterAndSetsFlag ==
    [][ DeniedStep =>
            /\ UNCHANGED << maltiverseRequestCount, maltiverseResetTimeout >>
            /\ maltiverseQuotaExceeded' ]_vars

\* the last check was denied with the counter at the ceiling
C17_Witness ==
    /\ variant = "quota"
    /\ lastAcquire.result = "Denied"
    /\ maltiverseRequestCount = MALTIVERSE_MAX_REQUESTS
    /\ maltiverseQuotaExceeded
    /\ ~afterReset

\* the step in which pass p gets the answer to its reputation request
Answered(p) == passes[p].pc = "maltiverse" /\ passes'[p].pc # "maltiverse"

\* the request's effect on the quota state and on the pass
LeftAlone(p) ==
    /\ UNCHANGED << maltiverseRequestCount, maltiverseQuotaExceeded, maltiverseApiCount >>
    /\ passes'[p].pc = "scan"
    /\ passes'[p].idx = passes[p].idx + 1
    /\ passes'[p].ips = passes[p].ips

\* C18: a request that fails in transport or is answered with a non-success
\* status other than the quota rejection gives the address the outcome
\* Error, leaves counter and flag as they were, and the pass goes on with
\* the next address.
C18_FailedRequestIsErrorOnly ==
    [][ \A p \in PassIds :
            (Answered(p) /\ passes'[p].response \in { "err", "e404" })
                => (passes'[p].reputation = "Error" /\ LeftAlone(p)) ]_vars

\* C18 as amended: the same for every failure other than the quota
\* rejection and 404; a 404 gives the outcome "not in Maltiverse" with the
\* same frame.
C18_FailedRequestLeavesQuotaAlone ==
    [][ \A p \in PassIds :
            /\ (Answered(p) /\ passes'[p].response = "err")
                    => (passes'[p].reputation = "Error" /\ LeftAlone(p))
            /\ (Answered(p) /\ passes'[p].response = "e404")
                    => /\ passes'[p].reputation \in { "Unknown (not in Maltiverse)", "Not found" }
                       /\ LeftAlone(p)
      ]_vars

\* an address has just got the outcome Error after an earlier request of
\* the window was counted, and the pass has addresses left
C18_Witness ==
    \E p \in PassIds :
        /\ variant = "quota"
        /\ passes[p].pc = "scan"
        /\ passes[p].response = "err"
        /\ passes[p].reputation = "Error"
        /\ maltiverseRequestCount > 0
        /\ passes[p].idx <= Len(passes[p].ips)

\* C19: with the reputation feature off or without a key, no pass has a
\* reputation request in flight or answered and the request counter keeps
\* its initial value.
C19_DisabledFeatureNeverQueries ==
    ~apiEnabled =>
        /\ maltiverseApiCount = 0
        /\ \A p \in PassIds :
              /\ passes[p].pc # "maltiverse"
              /\ passes[p].response = "none"
              /\ passes[p].reputation = "none"

\* a pass has gone through its whole scan with the feature off
C19_Witness ==
    /\ variant = "env"
    /\ ~apiEnabled
    /\ \E p \in PassIds :
          /\ passes[p].pc = "done"
          /\ Lookups(p) = Len(passes[p].ips)
          /\ Lookups(p) > 0

\* C20: once main() has started the quota timer, one reset timeout is
\* pending at any time, and the reset can run whenever the event loop is
\* idle, whatever the requests of the window.
C20_OneResetTimerPending ==
    (variant = "quota" /\ mainPc \notin { "init", "exited" })
        => /\ maltiverseResetTimeout = 1
           /\ running = 0 => ENABLED ResetTimerQ

\* the reset timer has fired after a granted request and a timeout is
\* pending again, with no request made in the new window
C20_Witness ==
    /\ variant = "quota"
    /\ mainPc = "running"
    /\ afterReset
    /\ lastAcquire.result = "Granted"
    /\ issuedInWindow = 0
    /\ maltiverseResetTimeout = 1

\* the quota guard is exhausted: the flag of the quota edition, the counter
\* at MALTIVERSE_API_QUOTA in the env edition
Exhausted ==
    IF variant = "quota" THEN maltiverseQuotaExceeded
    ELSE apiEnabled /\ ApiQuotaReached(maltiverseApiCount)

ProcessEnded == mainPc \in { "exited", "returned", "crashed" }

\* C21: while the process lives, an exhausted quota guard is open again
\* some time later.
C21_ExhaustedEventuallyOpen == Exhausted ~> (~Exhausted \/ ProcessEnded)

\* the discovery failed: no answer, or an answer that is no list
DiscoveryFailed(response) == ~response.ok \/ response.shape # "list"

\* C22: the discovery always comes back with a list, and after a failed
\* discovery the address list is the one of an empty discovery.
C22_DiscoveryFailureIsNotFatal ==
    /\ ~disc.crashed
    /\ (disc.done /\ DiscoveryFailed(disc.response)) =>
            /\ disc.openNICIPs = << >>
            /\ disc.allIPs = AllIPs(disc.self, << >>)

\* C23: with a database file missing nothing ever starts: no pass, no
\* address resolved or recorded, no URL, no scan timer, no reset timer.
C23_MissingDatabaseStopsStartup ==
    (~mmdb.asn \/ ~mmdb.country) =>
        /\ mainPc \in { "init", "exited" }
        /\ ~scanTimer
        /\ maltiverseResetTimeout = 0
        /\ \A p \in PassIds : passes[p] = NoPass
        /\ lastIP = NULL
        /\ running = 0

\* the process has exited with only the country database missing
C23_Witness == variant = "env" /\ mainPc = "exited" /\ mmdb.asn /\ ~mmdb.country

PassRank(pass) ==
    CASE pass.pc = "none" -> 0
      [] pass.pc = "resolving" -> 1
      [] pass.pc = "discovering" -> 2
      [] pass.pc = "scan" -> 2 * pass.idx + 1
      [] pass.pc = "maltiverse" -> 2 * pass.idx + 2
      [] OTHER -> 2 * (Len(pass.ips) + 2) + 1

\* every step of a pass takes it further or ends it: no pass goes around
\* in circles
PassAdvances ==
    [][ \A p \in PassIds :
            (passes[p].pc # "none" /\ passes'[p] # passes[p])
                => (passes'[p].pc = "none" \/ PassRank(passes'[p]) > PassRank(passes[p])) ]_vars

C25_CounterWithinCeiling ==
    variant = "quota" => maltiverseRequestCount \in 0 .. MALTIVERSE_MAX_REQUESTS

\* pass p compares the address it resolved with lastIP in this step
Decides(p) ==
    /\ passes[p].pc \in { "resolving", "discovering" }
    /\ passes'[p].pc \in { "scan", "done" }

\* C26: a pass that goes on to scan records the address it resolved as
\* lastIP in the very step that decides to scan, before its first lookup;
\* and a pass that resolves the address lastIP holds is skipped: it looks
\* up nothing and leaves lastIP and the quota state alone, whatever the
\* lookups of earlier passes ended with and whether or not the quota has
\* been reset since.
C26_SeenAddressIsNotScannedAgain ==
    [][ \A p \in PassIds : Decides(p) =>
            /\ passes'[p].pc = "scan" =>
                    /\ lastIP' = passes'[p].myip
                    /\ Lookups(p)' = 0
            /\ (passes'[p].myip # NULL /\ passes'[p].myip = lastIP) =>
                    /\ passes'[p].pc = "done"
                    /\ Lookups(p)' = 0
                    /\ UNCHANGED << lastIP, quotaVars, issuedInWindow, lastAcquire >> ]_vars

\* the last quota check before the reset was denied, the pass it belonged
\* to has ended, the quota has been reset and not been checked since, and
\* a pass triggered after all that has resolved the address lastIP holds
\* and is through without a lookup
C26_Witness ==
    /\ variant = "quota"
    /\ lastAcquire.result = "Denied"
    /\ afterReset
    /\ ~maltiverseQuotaExceeded
    /\ \E p \in PassIds :
        /\ passes[p].trigger = "timer"
        /\ passes[p].pc = "done"
        /\ running = p
        /\ passes[p].myip # NULL
        /\ passes[p].myip = lastIP
        /\ Lookups(p) = 0
        /\ \A q \in PassIds \ { p } : passes[q].pc = "none"

\* pass p sends a reputation request in this step
IssuesRequest(p) == passes[p].pc # "maltiverse" /\ passes'[p].pc = "maltiverse"

\* C27: in the env edition maltiverseApiCount never goes down, and from a
\* state in which it is at or above MALTIVERSE_API_QUOTA no pass sends a
\* reputation request any more.
C27_ApiCountOnlyGrowsAndClosesForGood ==
    [][ variant = "env" =>
            /\ maltiverseApiCount' >= maltiverseApiCount
            /\ maltiverseApiCount >= MALTIVERSE_API_QUOTA =>
                    \A p \in PassIds : ~IssuesRequest(p) ]_vars

\* answers to requests of two overlapping passes have taken the counter
\* past the quota, and a pass started by the timer has gone past an
\* address without a request
C27_Witness ==
    /\ variant = "env"
    /\ apiEnabled
    /\ maltiverseApiCount > MALTIVERSE_API_QUOTA
    /\ \E p \in PassIds :
        /\ passes[p].trigger = "timer"
        /\ passes[p].pc = "scan"
        /\ Lookups(p) > 0
        /\ passes[p].response = "none"
====
